---------------------------- MODULE Spec2Model ----------------------------
(***************************************************************************)
(* Commutation oracle (is_commuting) and incremental commutation DAG       *)
(* (CommutationDAG) of pennylane/transforms/get_dag_commutation.py.        *)
(*                                                                         *)
(* Angles are exact integer multiples of pi/2, so np.mod is integer        *)
(* remainder and np.allclose is equality.  An operation is a record        *)
(*   name, cls, wires, control_wires, target_wires, data, is_controlled    *)
(* where cls is the operation's base class ("Operation", "CVOperation" or  *)
(* "Channel"), the wire fields are sets of wire labels, data is the        *)
(* sequence of parameters and is_controlled is the kind of the controlled  *)
(* target ("" when the attribute is falsy).                                *)
(* The value of a call is a record: kind "return" carries the boolean in   *)
(* value; any other kind is the class of the exception raised and name is  *)
(* the operation (or key) the exception names.                             *)
(*                                                                         *)
(* Circuit of pennylane/circuit.py: its parameter bookkeeping (_par_info,  *)
(* trainable_params, get_parameters, set_parameters, inv) over a heap of   *)
(* operator objects.                                                       *)
(***************************************************************************)
EXTENDS Integers, Sequences, FiniteSets, TLC

\* ---------------------------------------------------------------------
\* Bounds of the model
\* ---------------------------------------------------------------------
MaxNodes == 4
MaxTapeLen == 6
NumWires == 2
MaxAngle == 4

\* the operations and the parameters of a circuit, the parameter lists of
\* one length handed to set_parameters, the indices in one assignment to
\* trainable_params, and the objects ever allocated
MaxOps == 2

MaxParams == 3

MaxValue == 1

MaxIndices == 1

MaxObjects == 4

\* the largest wire label of a caller's tape
MaxLabel == 2

\* the largest number of operations of a caller's tape
MaxRemapLen == 2

\* ---------------------------------------------------------------------
\* Angles, in units of pi/2
\* ---------------------------------------------------------------------
HalfPi == 1
Pi == 2
TwoPi == 4

\* np.mod(x, 2 * np.pi): the result has the sign of the divisor
ModTwoPi(x) == x % TwoPi

\* np.mod(x, -2 * np.pi): the result lies in (-2*pi, 0]
ModNegTwoPi(x) == 0 - ((0 - x) % TwoPi)

\* np.mod(x, np.pi / 2)
ModHalfPi(x) == x % HalfPi

\* ---------------------------------------------------------------------
\* Values of a call
\* ---------------------------------------------------------------------
Return(b) == [kind |-> "return", value |-> b, name |-> ""]

Raise(exc, n) == [kind |-> exc, value |-> FALSE, name |-> n]

\* Python's  bool(x) and bool(y)  on two calls: y is only evaluated
\* when x returned True.
BoolAnd(x, y) == IF x.kind # "return" THEN x ELSE IF ~x.value THEN x ELSE y

\* ---------------------------------------------------------------------
\* Operation descriptors
\* ---------------------------------------------------------------------
Op(n, w, d) ==
    [name |-> n, cls |-> "Operation", wires |-> w, control_wires |-> {},
     target_wires |-> w, data |-> d, is_controlled |-> ""]

COp(n, base, c, t, d) ==
    [name |-> n, cls |-> "Operation", wires |-> c \cup t, control_wires |-> c,
     target_wires |-> t, data |-> d, is_controlled |-> base]

ClsOp(n, k, w, d) ==
    [name |-> n, cls |-> k, wires |-> w, control_wires |-> {},
     target_wires |-> w, data |-> d, is_controlled |-> ""]

position ==
    ("Hadamard" :> 0 @@
     "PauliX" :> 1 @@
     "PauliY" :> 2 @@
     "PauliZ" :> 3 @@
     "SWAP" :> 4 @@
     "ctrl" :> 5 @@
     "S" :> 6 @@
     "T" :> 7 @@
     "SX" :> 8 @@
     "ISWAP" :> 9 @@
     "SISWAP" :> 10 @@
     "Barrier" :> 11 @@
     "WireCut" :> 12 @@
     "RX" :> 13 @@
     "RY" :> 14 @@
     "RZ" :> 15 @@
     "PhaseShift" :> 16 @@
     "Rot" :> 17 @@
     "MultiRZ" :> 18 @@
     "Identity" :> 19 @@
     "U1" :> 20 @@
     "U2" :> 21 @@
     "U3" :> 22 @@
     "IsingXX" :> 23 @@
     "IsingYY" :> 24 @@
     "IsingZZ" :> 25 @@
     "QubitStateVector" :> 26 @@
     "BasisState" :> 27)

commutation_map ==
    ("Hadamard" :>
       <<1, 0, 0, 0, 0, 0, 0, 0, 0, 0, 0, 0, 0, 0, 0, 0, 0, 0, 0, 1, 0, 0, 0, 0, 0, 0, 0, 0>> @@
     "PauliX" :>
       <<0, 1, 0, 0, 0, 0, 0, 0, 1, 0, 0, 0, 0, 1, 0, 0, 0, 0, 0, 1, 0, 0, 0, 1, 0, 0, 0, 0>> @@
     "PauliY" :>
       <<0, 0, 1, 0, 0, 0, 0, 0, 0, 0, 0, 0, 0, 0, 1, 0, 0, 0, 0, 1, 0, 0, 0, 0, 1, 0, 0, 0>> @@
     "PauliZ" :>
       <<0, 0, 0, 1, 0, 1, 1, 1, 0, 0, 0, 0, 0, 0, 0, 1, 1, 0, 1, 1, 1, 0, 0, 0, 0, 1, 0, 0>> @@
     "SWAP" :>
       <<0, 0, 0, 0, 1, 0, 0, 0, 0, 1, 1, 0, 0, 0, 0, 0, 0, 0, 0, 1, 0, 0, 0, 0, 0, 0, 0, 0>> @@
     "ctrl" :>
       <<0, 0, 0, 1, 0, 1, 1, 1, 0, 0, 0, 0, 0, 0, 0, 1, 1, 0, 1, 1, 1, 0, 0, 0, 0, 1, 0, 0>> @@
     "S" :>
       <<0, 0, 0, 1, 0, 1, 1, 1, 0, 0, 0, 0, 0, 0, 0, 1, 1, 0, 1, 1, 1, 0, 0, 0, 0, 1, 0, 0>> @@
     "T" :>
       <<0, 0, 0, 1, 0, 1, 1, 1, 0, 0, 0, 0, 0, 0, 0, 1, 1, 0, 1, 1, 1, 0, 0, 0, 0, 1, 0, 0>> @@
     "SX" :>
       <<0, 1, 0, 0, 0, 0, 0, 0, 1, 0, 0, 0, 0, 0, 0, 1, 1, 0, 1, 1, 1, 0, 0, 0, 0, 1, 0, 0>> @@
     "ISWAP" :>
       <<0, 0, 0, 0, 1, 0, 0, 0, 0, 1, 1, 0, 0, 0, 0, 0, 0, 0, 0, 1, 0, 0, 0, 0, 0, 0, 0, 0>> @@
     "SISWAP" :>
       <<0, 0, 0, 0, 1, 0, 0, 0, 0, 1, 1, 0, 0, 0, 0, 0, 0, 0, 0, 1, 0, 0, 0, 0, 0, 0, 0, 0>> @@
     "Barrier" :>
       <<0, 0, 0, 0, 0, 0, 0, 0, 0, 0, 0, 0, 0, 0, 0, 0, 0, 0, 0, 0, 0, 0, 0, 0, 0, 0, 0, 0>> @@
     "WireCut" :>
       <<0, 0, 0, 0, 0, 0, 0, 0, 0, 0, 0, 0, 0, 0, 0, 0, 0, 0, 0, 0, 0, 0, 0, 0, 0, 0, 0, 0>> @@
     "RX" :>
       <<0, 1, 0, 0, 0, 0, 0, 0, 1, 0, 0, 0, 0, 1, 0, 0, 0, 0, 0, 1, 0, 0, 0, 1, 0, 0, 0, 0>> @@
     "RY" :>
       <<0, 0, 1, 0, 0, 0, 0, 0, 0, 0, 0, 0, 0, 0, 1, 0, 0, 0, 0, 1, 0, 0, 0, 0, 1, 0, 0, 0>> @@
     "RZ" :>
       <<0, 0, 0, 1, 0, 1, 1, 1, 0, 0, 0, 0, 0, 0, 0, 1, 1, 0, 1, 1, 1, 0, 0, 0, 0, 1, 0, 0>> @@
     "PhaseShift" :>
       <<0, 0, 0, 1, 0, 1, 1, 1, 0, 0, 0, 0, 0, 0, 0, 1, 1, 0, 1, 1, 1, 0, 0, 0, 0, 1, 0, 0>> @@
     "Rot" :>
       <<0, 0, 0, 0, 0, 0, 0, 0, 0, 0, 0, 0, 0, 0, 0, 0, 0, 0, 0, 1, 0, 0, 0, 0, 0, 0, 0, 0>> @@
     "MultiRZ" :>
       <<0, 0, 0, 1, 0, 1, 1, 1, 0, 0, 0, 0, 0, 0, 0, 1, 1, 0, 1, 1, 1, 0, 0, 0, 0, 1, 0, 0>> @@
     "Identity" :>
       <<1, 1, 1, 1, 1, 1, 1, 1, 1, 1, 1, 0, 0, 1, 1, 1, 1, 1, 1, 1, 1, 1, 1, 1, 1, 1, 0, 0>> @@
     "U1" :>
       <<0, 0, 0, 1, 0, 1, 1, 1, 0, 0, 0, 0, 0, 0, 0, 1, 1, 0, 1, 1, 1, 0, 0, 0, 0, 1, 0, 0>> @@
     "U2" :>
       <<0, 0, 0, 0, 0, 0, 0, 0, 0, 0, 0, 0, 0, 0, 0, 0, 0, 0, 0, 1, 0, 0, 0, 0, 0, 0, 0, 0>> @@
     "U3" :>
       <<0, 0, 0, 0, 0, 0, 0, 0, 0, 0, 0, 0, 0, 0, 0, 0, 0, 0, 0, 1, 0, 0, 0, 0, 0, 0, 0, 0>> @@
     "IsingXX" :>
       <<0, 1, 0, 0, 0, 0, 0, 0, 1, 0, 0, 0, 0, 1, 0, 0, 0, 0, 0, 1, 0, 0, 0, 1, 0, 0, 0, 0>> @@
     "IsingYY" :>
       <<0, 0, 1, 0, 0, 0, 0, 0, 0, 0, 0, 0, 0, 0, 1, 0, 0, 0, 0, 1, 0, 0, 0, 0, 1, 0, 0, 0>> @@
     "IsingZZ" :>
       <<0, 0, 0, 1, 0, 1, 1, 1, 0, 0, 0, 0, 0, 0, 0, 1, 1, 0, 1, 1, 1, 0, 0, 0, 0, 1, 0, 0>> @@
     "QubitStateVector" :>
       <<0, 0, 0, 0, 0, 0, 0, 0, 0, 0, 0, 0, 0, 0, 0, 0, 0, 0, 0, 0, 0, 0, 0, 0, 0, 0, 0, 0>> @@
     "BasisState" :>
       <<0, 0, 0, 0, 0, 0, 0, 0, 0, 0, 0, 0, 0, 0, 0, 0, 0, 0, 0, 0, 0, 0, 0, 0, 0, 0, 0, 0>>)

\* commutation_map[a][position[b]], a KeyError when a key is missing
Lookup(a, b) ==
    IF a \notin DOMAIN commutation_map THEN Raise("KeyError", a)
    ELSE IF b \notin DOMAIN position THEN Raise("KeyError", b)
    ELSE Return(commutation_map[a][position[b] + 1] = 1)

intersection(wires1, wires2) == (wires1 \cap wires2) # {}

simplify_rotation(rot) ==
    IF ModTwoPi(rot.data[1]) = HalfPi /\ ModNegTwoPi(rot.data[3]) = 0 - HalfPi
    THEN Op("RX", rot.wires, <<rot.data[2]>>)
    ELSE IF ModTwoPi(rot.data[1]) = 0 /\ ModTwoPi(rot.data[3]) = 0
    THEN Op("RY", rot.wires, <<rot.data[2]>>)
    ELSE IF ModTwoPi(rot.data[2]) = 0
    THEN Op("RZ", rot.wires, <<rot.data[1] + rot.data[3]>>)
    ELSE IF /\ ModTwoPi(rot.data[1]) = Pi
            /\ ModTwoPi(rot.data[2]) = HalfPi
            /\ ModTwoPi(rot.data[3]) = 0
    THEN Op("Hadamard", rot.wires, <<>>)
    ELSE rot

\* qml.ctrl(hadamard, control=...)(wires=...) of the last branch is built
\* outside this file: it is taken to be a controlled Hadamard without data
simplify_controlled_rotation(crot) ==
    IF ModTwoPi(crot.data[1]) = HalfPi /\ ModNegTwoPi(crot.data[3]) = 0 - HalfPi
    THEN COp("CRX", "RX", crot.control_wires, crot.target_wires, <<crot.data[2]>>)
    ELSE IF ModTwoPi(crot.data[1]) = 0 /\ ModTwoPi(crot.data[3]) = 0
    THEN COp("CRY", "RY", crot.control_wires, crot.target_wires, <<crot.data[2]>>)
    ELSE IF ModTwoPi(crot.data[2]) = 0
    THEN COp("CRZ", "RZ", crot.control_wires, crot.target_wires,
             <<crot.data[1] + crot.data[3]>>)
    ELSE IF /\ ModTwoPi(crot.data[1]) = Pi
            /\ ModTwoPi(crot.data[2]) = HalfPi
            /\ ModTwoPi(crot.data[3]) = 0
    THEN COp("ControlledOperation", "Hadamard", crot.control_wires,
             crot.target_wires, <<>>)
    ELSE crot

simplify_u2(u2) ==
    IF ModTwoPi(u2.data[2]) = 0 /\ ModTwoPi(u2.data[1] + u2.data[2]) = 0
    THEN Op("RY", u2.wires, <<HalfPi>>)
    ELSE IF ModHalfPi(u2.data[2]) = 0 /\ ModTwoPi(u2.data[1] + u2.data[2]) = 0
    THEN Op("RX", u2.wires, <<u2.data[2]>>)
    ELSE u2

simplify_u3(u3) ==
    IF /\ ModTwoPi(u3.data[3]) = 0
       /\ ModTwoPi(u3.data[2]) = 0
       /\ ModTwoPi(u3.data[1]) # 0
    THEN Op("RZ", u3.wires, <<u3.data[1]>>)
    ELSE IF /\ ModTwoPi(u3.data[3]) = HalfPi
            /\ ModTwoPi(u3.data[2] + u3.data[2]) = 0
            /\ ModTwoPi(u3.data[2]) # 0
    THEN Op("RX", u3.wires, <<u3.data[2]>>)
    ELSE IF /\ ModTwoPi(u3.data[3]) = 0
            /\ ModTwoPi(u3.data[2]) # 0
            /\ ModTwoPi(u3.data[2] + u3.data[2]) = 0
    THEN Op("RY", u3.wires, <<u3.data[1]>>)
    ELSE u3

\* only called for the names U2, U3, Rot and CRot
simplify(operation) ==
    IF operation.name = "Rot" THEN simplify_rotation(operation)
    ELSE IF operation.name = "U2" THEN simplify_u2(operation)
    ELSE IF operation.name = "U3" THEN simplify_u3(operation)
    ELSE simplify_controlled_rotation(operation)

not_supported_operations ==
    {"PauliRot", "QubitDensityMatrix", "CVNeuralNetLayers", "ApproxTimeEvolution",
     "ArbitraryUnitaryCommutingEvolution", "DisplacementEmbedding",
     "SqueezingEmbedding"}

non_commuting_operations ==
    {"ArbitraryStatePreparation", "BasisStatePreparation", "MottonenStatePreparation",
     "QubitCarry", "QubitSum", "SingleExcitation", "SingleExcitationMinus",
     "SingleExcitationPlus", "DoubleExcitation", "DoubleExcitationPlus",
     "DoubleExcitationMinus", "BasicEntanglerLayers", "GateFabric",
     "ParticleConservingU1", "ParticleConservingU2", "RandomLayers",
     "SimplifiedTwoDesign", "StronglyEntanglingLayers", "AllSinglesDoubles",
     "FermionicDoubleExcitation", "FermionicSingleExcitation", "Grover", "kUpCCGSD",
     "Permute", "QFT", "QuantumMonteCarlo", "QuantumPhaseEstimation", "UCCSD", "MPS",
     "TTN", "AmplitudeEmbedding", "AngleEmbedding", "BasisEmbedding", "IQPEmbedding",
     "QAOAEmbedding"}

simplifiable_names == {"U2", "U3", "Rot", "CRot"}

\* not_supported with the isinstance tests left out
not_supported_names_only(operation) == operation.name \in not_supported_operations

\* the test guarding each of the two raise statements
not_supported(operation) ==
    \/ operation.name \in not_supported_operations
    \/ operation.cls = "CVOperation"
    \/ operation.cls = "Channel"

\* "Simplify the rotations if possible"
simplified(operation) ==
    IF operation.name \in simplifiable_names THEN simplify(operation) ELSE operation

\* all_zeros without the reduction modulo 2*pi
all_zeros_no_mod(operation) == \A i \in 1..Len(operation.data) : operation.data[i] = 0

\* np.allclose(np.mod(operation.data, 2 * np.pi), 0)
all_zeros(operation) ==
    \A i \in 1..Len(operation.data) : ModTwoPi(operation.data[i]) = 0

\* "Parametric operation implements identity operator": the guard
implements_identity(operation) ==
    /\ operation.data # <<>>
    /\ operation.name # "U2"
    /\ all_zeros(operation)

\* identity_verdict1 without the Barrier/WireCut exception
identity_verdict1_always(operation2) == TRUE

\* ... the verdict when operation1 is the identity
identity_verdict1(operation2) == operation2.name \notin {"Barrier", "WireCut"}

\* identity_verdict2 without the Barrier/WireCut exception
identity_verdict2_always(operation1) == TRUE

\* ... the verdict when operation2 is the identity
identity_verdict2(operation1) == operation1.name \notin {"Barrier", "WireCut"}

\* if operation1.name or operation2.name in non_commuting_operations:
\* a non-empty string is truthy
non_commuting_test(operation1, operation2) ==
    operation1.name # "" \/ operation2.name \in non_commuting_operations

\* np.all(np.allcllose(...)): numpy has no attribute allcllose
matrix_test == Raise("AttributeError", "allcllose")

\* "Two simplified CRot"
two_crot(operation1, operation2) ==
    LET control_control ==
            intersection(operation1.control_wires, operation2.control_wires)
        target_target ==
            intersection(operation1.target_wires, operation2.target_wires)
    IN  IF control_control /\ target_target THEN matrix_test
        ELSE IF control_control /\ ~target_target THEN Return(TRUE)
        ELSE IF ~control_control /\ target_target THEN matrix_test
        ELSE Return(FALSE)

\* "Two simplified rotations"
two_rotations(operation1, operation2) ==
    IF operation1.name = "CRot"
    THEN IF ~intersection(operation1.target_wires, operation2.wires)
         THEN Lookup("ctrl", operation2.name)
         ELSE matrix_test
    ELSE IF operation2.name = "CRot"
    THEN IF ~intersection(operation2.target_wires, operation1.wires)
         THEN Lookup(operation1.name, "ctrl")
         ELSE matrix_test
    ELSE matrix_test

\* "Case 5: no controlled operations"
case5(operation1, operation2) == Lookup(operation1.name, operation2.name)

\* "Case 2 both operations are controlled"
case2(operation1, operation2) ==
    LET control_control ==
            intersection(operation1.control_wires, operation2.control_wires)
        target_target ==
            intersection(operation1.target_wires, operation2.target_wires)
        control_target ==
            intersection(operation1.control_wires, operation2.target_wires)
        target_control ==
            intersection(operation1.target_wires, operation2.control_wires)
        c1 == operation1.is_controlled
        c2 == operation2.is_controlled
    IN  IF control_control /\ ~target_target /\ ~control_target /\ ~target_control
        THEN Return(TRUE)
        ELSE IF ~control_control /\ target_target /\ ~control_target /\ ~target_control
        THEN Lookup(c1, c2)
        ELSE IF target_target /\ control_control /\ ~control_target /\ ~target_control
        THEN Lookup(c1, c2)
        ELSE IF control_target /\ target_control /\ ~target_target
        THEN BoolAnd(Lookup("ctrl", c2), Lookup(c1, "ctrl"))
        ELSE IF control_target /\ ~target_control /\ target_target
        THEN BoolAnd(Lookup("ctrl", c2), Lookup(c1, c2))
        ELSE IF target_control /\ ~control_target /\ target_target
        THEN BoolAnd(Lookup(c1, "ctrl"), Lookup(c1, c2))
        ELSE IF target_control /\ ~control_target /\ ~target_target
        THEN Lookup(c1, "ctrl")
        ELSE IF ~target_control /\ control_target /\ ~target_target
        THEN Lookup("ctrl", c2)
        ELSE IF target_control /\ control_target /\ target_target
        THEN BoolAnd(Lookup(c1, "ctrl"), BoolAnd(Lookup("ctrl", c2), Lookup(c1, c2)))
        ELSE case5(operation1, operation2)

\* "Case 3: only operation 1 is controlled"
case3(operation1, operation2) ==
    LET control_target == intersection(operation1.control_wires, operation2.wires)
        target_target == intersection(operation1.target_wires, operation2.wires)
        c1 == operation1.is_controlled
    IN  IF control_target /\ target_target
        THEN BoolAnd(Lookup(c1, operation2.name), Lookup("ctrl", operation2.name))
        ELSE IF control_target /\ ~target_target
        THEN Lookup("ctrl", operation2.name)
        ELSE IF ~control_target /\ target_target
        THEN Lookup(c1, operation2.name)
        ELSE case5(operation1, operation2)

\* "Case 4: only operation 2 is controlled"
case4(operation1, operation2) ==
    LET target_control == intersection(operation1.wires, operation2.control_wires)
        target_target == intersection(operation1.wires, operation2.target_wires)
        c2 == operation2.is_controlled
    IN  IF target_control /\ target_target
        THEN BoolAnd(Lookup(operation1.name, c2), Lookup(operation1.name, c2))
        ELSE IF target_control /\ ~target_target
        THEN Lookup(operation1.name, "ctrl")
        ELSE IF ~target_control /\ target_target
        THEN Lookup(operation1.name, c2)
        ELSE case5(operation1, operation2)

\* the statements of is_commuting after the non_commuting_operations test
lookup_cases(operation1, operation2) ==
    IF operation1.name = "CRot" /\ operation2.name = "CRot"
    THEN two_crot(operation1, operation2)
    ELSE IF operation1.name \in simplifiable_names /\ operation2.name \in simplifiable_names
    THEN two_rotations(operation1, operation2)
    ELSE IF operation1.is_controlled # "" /\ operation2.is_controlled # ""
    THEN case2(operation1, operation2)
    ELSE IF operation1.is_controlled # ""
    THEN case3(operation1, operation2)
    ELSE IF operation2.is_controlled # ""
    THEN case4(operation1, operation2)
    ELSE case5(operation1, operation2)

is_commuting(operation1, operation2) ==
    IF not_supported(operation1)
    THEN Raise("QuantumFunctionError", operation1.name)
    ELSE IF not_supported(operation2)
    THEN Raise("QuantumFunctionError", operation2.name)
    ELSE LET op1 == simplified(operation1)
             op2 == simplified(operation2)
         IN  IF implements_identity(op1) THEN Return(identity_verdict1(op2))
             ELSE IF implements_identity(op2) THEN Return(identity_verdict2(op1))
             ELSE IF ~intersection(op1.wires, op2.wires) THEN Return(TRUE)
             ELSE IF non_commuting_test(op1, op2) THEN Return(FALSE)
             ELSE lookup_cases(op1, op2)

\* ---------------------------------------------------------------------
\* Sorted lists and merging
\* ---------------------------------------------------------------------
RECURSIVE SortedList(_)
\* list(S) followed by .sort()
SortedList(S) ==
    IF S = {} THEN <<>>
    ELSE LET m == CHOOSE x \in S : \A y \in S : x <= y
         IN  <<m>> \o SortedList(S \ {m})

ToSet(list) == {list[i] : i \in 1..Len(list)}

RECURSIVE heapq_merge(_)
\* heapq.merge(*iterables): repeatedly yields the smallest head among the
\* iterables, the earliest iterable first on ties
heapq_merge(iterables) ==
    LET live == {i \in 1..Len(iterables) : iterables[i] # <<>>}
    IN  IF live = {} THEN <<>>
        ELSE LET i == CHOOSE k \in live :
                        \A j \in live :
                            \/ Head(iterables[k]) < Head(iterables[j])
                            \/ (Head(iterables[k]) = Head(iterables[j]) /\ k <= j)
             IN  <<Head(iterables[i])>> \o
                 heapq_merge([iterables EXCEPT ![i] = Tail(iterables[i])])

RECURSIVE drop_repeats(_, _)
\* the loop of _merge_no_duplicates: a value is yielded when it differs
\* from the last yielded value (last: a sequence of at most one value)
drop_repeats(list, last) ==
    IF list = <<>> THEN <<>>
    ELSE IF last # <<>> /\ Head(list) = last[1]
    THEN drop_repeats(Tail(list), last)
    ELSE <<Head(list)>> \o drop_repeats(Tail(list), <<Head(list)>>)

\* _merge_no_duplicates that yields every value of the merge
_merge_keep_duplicates(iterables) == heapq_merge(iterables)

_merge_no_duplicates(iterables) == drop_repeats(heapq_merge(iterables), <<>>)

\* ---------------------------------------------------------------------
\* The graph: nodes[i + 1] is the node with id i; an edge is a record
\* ---------------------------------------------------------------------
CommutationDAGNode(operation) ==
    [op |-> operation, node_id |-> 0 - 1, successors |-> <<>>,
     successors_unmerged |-> FALSE, predecessors |-> <<>>, reachable |-> "None"]

get_node(ns, id) == ns[id + 1]

\* add_edge with the two ends exchanged
add_edge_swapped(es, node_in, node_out) ==
    es \cup {[node_in |-> node_out, node_out |-> node_in, commute |-> FALSE]}

\* add_edge that tags the edge as commuting
add_edge_commute(es, node_in, node_out) ==
    es \cup {[node_in |-> node_in, node_out |-> node_out, commute |-> TRUE]}

add_edge(es, node_in, node_out) ==
    es \cup {[node_in |-> node_in, node_out |-> node_out, commute |-> FALSE]}

direct_predecessors(es, id) == SortedList({e.node_in : e \in {x \in es : x.node_out = id}})

direct_successors(es, id) == SortedList({e.node_out : e \in {x \in es : x.node_in = id}})

RECURSIVE ancestors(_, _)
\* nx.ancestors: every node with a path to the given set of nodes
ancestors(es, S) ==
    LET more == {e.node_in : e \in {x \in es : x.node_out \in S}}
    IN  IF more = {} THEN {} ELSE more \cup ancestors(es, more)

RECURSIVE descendants(_, _)
\* nx.descendants: every node reached by a path from the given set of nodes
descendants(es, S) ==
    LET more == {e.node_out : e \in {x \in es : x.node_in \in S}}
    IN  IF more = {} THEN {} ELSE more \cup descendants(es, more)

predecessors(es, id) == SortedList(ancestors(es, {id}))

\* successors that stops at the direct successors
successors_direct(es, id) == direct_successors(es, id)

successors(es, id) == SortedList(descendants(es, {id}))

RECURSIVE pred_lists(_, _)
\* the appends of _pred_update, one pair of lists per direct predecessor
pred_lists(ns, d_preds) ==
    IF d_preds = <<>> THEN <<>>
    ELSE <<<<Head(d_preds)>>, get_node(ns, Head(d_preds)).predecessors>>
         \o pred_lists(ns, Tail(d_preds))

\* _pred_update that keeps the direct predecessors only
_pred_update_direct(ns, es, id) ==
    [ns EXCEPT ![id + 1].predecessors = SortedList(ToSet(direct_predecessors(es, id)))]

_pred_update(ns, es, id) ==
    [ns EXCEPT ![id + 1].predecessors =
        _merge_no_duplicates(pred_lists(ns, direct_predecessors(es, id)))]

\* mark_unreachable that clears the flag of every node
mark_unreachable_all(ns, list_predecessors) ==
    [i \in 1..Len(ns) |-> [ns[i] EXCEPT !.reachable = "False"]]

\* mark_unreachable that clears no flag
mark_unreachable_none(ns, list_predecessors) == ns

\* for pred_id in list_predecessors: reachable = False
mark_unreachable(ns, list_predecessors) ==
    [i \in 1..Len(ns) |->
        IF (i - 1) \in ToSet(list_predecessors)
        THEN [ns[i] EXCEPT !.reachable = "False"]
        ELSE ns[i]]

\* mark_reachable that leaves the flags as the last insertion left them
mark_reachable_skipped(ns, max_node_id) == ns

\* for current_node_id in range(0, max_node_id): reachable = True
mark_reachable(ns, max_node_id) ==
    [i \in 1..Len(ns) |->
        IF i - 1 < max_node_id THEN [ns[i] EXCEPT !.reachable = "True"] ELSE ns[i]]

NoException == [kind |-> "none", name |-> ""]

Exception(r) == [kind |-> r.kind, name |-> r.name]

RECURSIVE scan_previous(_, _, _, _)
\* the second loop of _update_edges, from prev_node_id down to 0; it stops
\* where is_commuting raises
scan_previous(ns, es, max_node_id, prev_node_id) ==
    IF prev_node_id < 0 THEN [nodes |-> ns, edges |-> es, raised |-> NoException]
    ELSE IF get_node(ns, prev_node_id).reachable # "True"
    THEN scan_previous(ns, es, max_node_id, prev_node_id - 1)
    ELSE LET r == is_commuting(get_node(ns, prev_node_id).op,
                               get_node(ns, max_node_id).op)
         IN  IF r.kind # "return"
             THEN [nodes |-> ns, edges |-> es, raised |-> Exception(r)]
             ELSE IF r.value
             THEN scan_previous(ns, es, max_node_id, prev_node_id - 1)
             ELSE LET es2 == add_edge(es, prev_node_id, max_node_id)
                      ns2 == _pred_update(ns, es2, max_node_id)
                      ns3 == mark_unreachable(ns2,
                                 get_node(ns2, max_node_id).predecessors)
                  IN  scan_previous(ns3, es2, max_node_id, prev_node_id - 1)

_update_edges(ns, es) ==
    LET max_node_id == Len(ns) - 1
    IN  scan_previous(mark_reachable(ns, max_node_id), es, max_node_id,
                      max_node_id - 1)

RECURSIVE succ_lists_direct(_, _)
\* succ_lists without the successors of the direct successors
succ_lists_direct(ns, d_succs) ==
    IF d_succs = <<>> THEN <<>>
    ELSE <<<<Head(d_succs)>>>> \o succ_lists_direct(ns, Tail(d_succs))

RECURSIVE succ_lists(_, _)
\* the appends of _add_successors, one pair of lists per direct successor
succ_lists(ns, d_succs) ==
    IF d_succs = <<>> THEN <<>>
    ELSE <<<<Head(d_succs)>>, get_node(ns, Head(d_succs)).successors>>
         \o succ_lists(ns, Tail(d_succs))

RECURSIVE successor_pass(_, _, _)
\* the loop of _add_successors, from node_id down to 0.  The lists are
\* appended to the node's current successors list; when that list already
\* holds node ids, heapq.merge is handed integers and raises TypeError,
\* leaving the appended lists in place (successors_unmerged).
successor_pass(ns, es, id) ==
    IF id < 0 THEN [nodes |-> ns, raised |-> NoException]
    ELSE LET node == get_node(ns, id)
             appended == succ_lists(ns, direct_successors(es, id))
         IN  IF node.successors # <<>>
             THEN [nodes |-> [ns EXCEPT ![id + 1].successors_unmerged =
                                  node.successors_unmerged \/ appended # <<>>],
                   raised |-> [kind |-> "TypeError", name |-> "int"]]
             ELSE successor_pass(
                      [ns EXCEPT ![id + 1].successors = _merge_no_duplicates(appended)],
                      es, id - 1)

\* ---------------------------------------------------------------------
\* State
\* ---------------------------------------------------------------------
\* ---------------------------------------------------------------------------
\* Circuit (circuit.py).  Operators and observables are objects on a heap:
\* heap[id] is the object with that identity, and the circuit, its
\* measurements and its _par_info hold identities.  Every parameter is a
\* scalar, so no operator has a batch size.

\* an operator object; return_type is "" on an object without that attribute
Object(n, d, rt) == [name |-> n, data |-> d, inverse |-> FALSE, return_type |-> rt]

prep_ops_names == {"BasisState", "QubitStateVector", "QubitDensityMatrix"}

\* the kinds whose adjoint() raises AdjointUndefinedError: an operation
\* that keeps the default of Operator
adjoint_undefined == {"CustomOp"}

\* the parameters of op.adjoint() for a rotation: the angles negated, in
\* reverse order
adjoint_data(d) == [k \in 1..Len(d) |-> 0 - d[Len(d) + 1 - k]]

RECURSIVE Flatten(_)
Flatten(lists) == IF lists = <<>> THEN <<>> ELSE Head(lists) \o Flatten(Tail(lists))

Reversed(list) == [k \in 1..Len(list) |-> list[Len(list) + 1 - k]]

\* Circuit.observables: the observable of each measurement
observables(c) == c._measurements

\* _update_batch_size: None, modelled as 0, when no operation has a batch size
_update_batch_size(c, h) == 0

\* _update_output_dim: one entry per expectation value, times the batch size
_update_output_dim(c, batch_size) ==
    IF batch_size # 0 THEN Len(c._measurements) * batch_size ELSE Len(c._measurements)

RECURSIVE par_entries(_, _, _)
\* _update_par_info on an empty dictionary: one entry per parameter of the
\* operations and then of the observables, keyed by a running count
par_entries(objs, h, param_count) ==
    IF objs = <<>> THEN <<>>
    ELSE LET obj == Head(objs)
             n   == Len(h[obj].data)
         IN  [k \in 1..n |-> [key |-> param_count + k - 1, op |-> obj, p_idx |-> k - 1]]
                 \o par_entries(Tail(objs), h, param_count + n)

_update_par_info(c, h) == par_entries(c._ops \o observables(c), h, 0)

\* _update_trainable_params: list(self._par_info)
_update_trainable_params(par_info) == [k \in 1..Len(par_info) |-> par_info[k].key]

\* Circuit(ops, measurements): the fields after __init__ and its _update()
Circuit(ops, measurements, h) ==
    LET c0 == [_ops |-> ops, _measurements |-> measurements, _par_info |-> <<>>,
               _trainable_params |-> <<>>, _batch_size |-> 0, _output_dim |-> 0]
        c1 == [c0 EXCEPT !._par_info = _update_par_info(c0, h)]
        c2 == [c1 EXCEPT !._trainable_params = _update_trainable_params(c1._par_info)]
        c3 == [c2 EXCEPT !._batch_size = _update_batch_size(c2, h)]
    IN  [c3 EXCEPT !._output_dim = _update_output_dim(c3, c3._batch_size)]

\* the keys of _par_info, in insertion order
par_keys(c) == [k \in 1..Len(c._par_info) |-> c._par_info[k].key]

\* self._par_info[idx]
par_info_at(c, idx) == CHOOSE e \in ToSet(c._par_info) : e.key = idx

\* num_params that counts every parameter
num_params_all(c) == Len(c._par_info)

num_params(c) == Len(c._trainable_params)

\* get_parameters(trainable_only, operations_only)
get_parameters(c, h, trainable_only, operations_only) ==
    LET iterator == IF trainable_only THEN c._trainable_params ELSE par_keys(c)
        missing  == {k \in 1..Len(iterator) : iterator[k] \notin ToSet(par_keys(c))}
        kept     == SelectSeq(iterator,
                        LAMBDA i : ~(operations_only
                                       /\ h[par_info_at(c, i).op].return_type # ""))
    IN  IF missing # {}
        THEN Raise("KeyError", ToString(iterator[CHOOSE k \in missing :
                                                     \A m \in missing : k <= m]))
        ELSE Return([k \in 1..Len(kept) |->
                        h[par_info_at(c, kept[k]).op].data[par_info_at(c, kept[k]).p_idx + 1]])

\* op.data[p_idx] = p, written into the first slot of the operator
store_first(h, info, p) == [h EXCEPT ![info.op].data[1] = p]

\* op.data[p_idx] = p
store(h, info, p) == [h EXCEPT ![info.op].data[info.p_idx + 1] = p]

RECURSIVE assign(_, _, _, _)
\* the loop of set_parameters over (idx, p): a missing key raises KeyError
\* and keeps the values stored before it
assign(c, h, idxs, ps) ==
    IF idxs = <<>> \/ ps = <<>> THEN [heap |-> h, raised |-> NoException]
    ELSE IF Head(idxs) \notin ToSet(par_keys(c))
         THEN [heap |-> h, raised |-> [kind |-> "KeyError", name |-> ToString(Head(idxs))]]
         ELSE assign(c, store(h, par_info_at(c, Head(idxs)), Head(ps)), Tail(idxs), Tail(ps))

\* trainable_params.setter: the exception it raises, or NoException
trainable_params_check(c, param_indices) ==
    IF \E i \in param_indices : i < 0
    THEN [kind |-> "TapeError", name |-> "Argument indices must be non-negative integers."]
    ELSE IF \E i \in param_indices : i > Len(c._par_info)
         THEN [kind |-> "TapeError", name |-> "Tape has at most num_params parameters."]
         ELSE NoException

\* inv: queue == self._ops compares a list with the tuple _ops
queue_is_ops(queue, c) == FALSE

RECURSIVE index_queue(_, _, _)
\* inv: the parameter indices of each object of a queue, counted from
\* param_count
index_queue(queue, h, param_count) ==
    IF queue = <<>> THEN <<>>
    ELSE LET n == Len(h[Head(queue)].data)
         IN  <<[k \in 1..n |-> param_count + k - 1]>>
                 \o index_queue(Tail(queue), h, param_count + n)

\* inv: parameter_indices, flattened
parameter_indices(c, h) ==
    LET prep_ops     == SelectSeq(c._ops, LAMBDA op : h[op].name \in prep_ops_names)
        non_prep_ops == SelectSeq(c._ops, LAMBDA op : h[op].name \notin prep_ops_names)
        count(q)     == Len(Flatten(index_queue(q, h, 0)))
        params(q, n) == LET obj_params == index_queue(q, h, n)
                        IN  IF queue_is_ops(q, c) THEN Reversed(obj_params) ELSE obj_params
    IN  Flatten(params(prep_ops, 0)
                  \o params(non_prep_ops, count(prep_ops))
                  \o params(observables(c), count(prep_ops) + count(non_prep_ops)))

\* inv: parameter_mapping = dict(zip(parameter_indices, range(...)))
parameter_mapping(c, h) ==
    LET indices == parameter_indices(c, h)
    IN  [i \in ToSet(indices) |-> (CHOOSE k \in 1..Len(indices) : indices[k] = i) - 1]

RECURSIVE adjoint_all(_, _)
\* inv: op.adjoint() builds a new operator; where it is undefined op.inv()
\* flips the operator in place and returns it
adjoint_all(h, non_prep_ops) ==
    IF non_prep_ops = <<>> THEN [heap |-> h, new_ops |-> <<>>]
    ELSE LET op == Head(non_prep_ops)
             h1 == IF h[op].name \in adjoint_undefined
                   THEN [h EXCEPT ![op].inverse = ~h[op].inverse]
                   ELSE Append(h, [h[op] EXCEPT !.data = adjoint_data(h[op].data)])
             o1 == IF h[op].name \in adjoint_undefined THEN op ELSE Len(h1)
             r  == adjoint_all(h1, Tail(non_prep_ops))
         IN  [heap |-> r.heap, new_ops |-> <<o1>> \o r.new_ops]

VARIABLES
    node_id,        \* CommutationDAG.node_id
    nodes,          \* the nodes of _multi_graph, by id
    edges,          \* the edges of _multi_graph
    raised,         \* the exception the last call raised, or NoException
    phase,          \* "Building", "Finalized" (one successor pass, nothing since), "Misused"
    answer,         \* the value the last call of successors returned, or NoAnswer
    operation1,     \* the operands of a call of is_commuting ...
    operation2,
    result,         \* ... and its value
    heap,           \* the operator and observable objects, by identity
    circuit,        \* the fields of a Circuit
    call,           \* the last call on the circuit and its arguments
    tape            \* the caller's tape: operations, observables and wires

vars ==
    <<node_id, nodes, edges, raised, phase, answer, operation1, operation2, result,
      heap, circuit, call, tape>>

dag_vars == <<node_id, nodes, edges, raised, phase, answer>>

oracle_vars == <<operation1, operation2, result>>

circuit_vars == <<heap, circuit, call>>

tape_vars == <<tape>>

\* ---------------------------------------------------------------------
\* Inputs
\* ---------------------------------------------------------------------
Wires == 0..(NumWires - 1)

Angles == (0 - MaxAngle)..MaxAngle

\* one angle per residue class modulo 2*pi, for the three-parameter kinds
Residues == 0..(TwoPi - 1)

PauliX(w) == Op("PauliX", {w}, <<>>)

PauliY(w) == Op("PauliY", {w}, <<>>)

Hadamard(w) == Op("Hadamard", {w}, <<>>)

RX(phi, w) == Op("RX", {w}, <<phi>>)

Barrier(ws) == Op("Barrier", ws, <<>>)

CNOT(c, t) == COp("CNOT", "PauliX", {c}, {t}, <<>>)

CRZ(phi, c, t) == COp("CRZ", "RZ", {c}, {t}, <<phi>>)

\* a continuous-variable operation
Displacement(a, phi, w) == ClsOp("Displacement", "CVOperation", {w}, <<a, phi>>)

\* a noise channel
BitFlip(p, w) == ClsOp("BitFlip", "Channel", {w}, <<p>>)

\* a control wire and a target wire
WirePairs == {p \in Wires \X Wires : p[1] # p[2]}

\* operands of is_commuting
OracleOps ==
    {Op(n, {w}, <<>>) :
        n \in {"Hadamard", "PauliX", "PauliZ", "SX", "Barrier", "WireCut", "QFT"},
        w \in Wires}
    \cup {Op(n, {w}, <<a>>) : n \in {"RX", "RZ"}, w \in Wires, a \in Angles}
    \cup {Op("U2", {w}, <<a, b>>) : w \in Wires, a \in Residues, b \in Residues}
    \cup {Op(n, {w}, <<a, b, c>>) :
            n \in {"Rot", "U3"}, w \in Wires, a \in Residues, b \in Residues,
            c \in Residues}
    \cup {Op(n, Wires, <<>>) : n \in {"SWAP", "Barrier"}}
    \cup {Op("IsingZZ", Wires, <<HalfPi>>)}
    \cup {CNOT(p[1], p[2]) : p \in WirePairs}
    \cup {CRZ(a, p[1], p[2]) : a \in Angles, p \in WirePairs}
    \cup {COp("CRot", "Rot", {p[1]}, {p[2]}, <<a, b, d>>) :
            p \in WirePairs, a \in Residues, b \in Residues, d \in Residues}
    \cup {Displacement(a, 0, w) : a \in {0, 1}, w \in Wires}
    \cup {BitFlip(p, w) : p \in {0, 1}, w \in Wires}
    \cup {Op("PauliRot", {w}, <<a>>) : a \in {0, 1}, w \in Wires}
    \cup {Op(n, {w}, <<>>) :
            n \in {"QubitDensityMatrix", "CVNeuralNetLayers", "ApproxTimeEvolution",
                   "ArbitraryUnitary", "CommutingEvolution", "DisplacementEmbedding",
                   "SqueezingEmbedding"},
            w \in Wires}

\* operations handed to CommutationDAG.add_node
DagOps ==
    {PauliX(0), PauliX(1), CNOT(0, 1), RX(0, 0), Barrier({0}), Barrier({1}),
     Displacement(1, 0, 0)}

\* operations of the tapes handed to get_dag_commutation
TapeOps ==
    {PauliX(0), CNOT(1, 2), PauliY(1), Hadamard(2), CRZ(HalfPi, 2, 0),
     Displacement(1, 0, 0)}

NoOperation == Op("", {}, <<>>)

NoResult == [kind |-> "pending", value |-> FALSE, name |-> ""]

NoAnswer == [id |-> 0 - 1, value |-> <<>>]

NoCall == [name |-> "", params |-> <<>>, trainable_only |-> FALSE]

NoTape == [operations |-> <<>>, observables |-> <<>>, wires |-> <<>>]

\* no circuit has been constructed
NoCircuit ==
    [_ops |-> <<>>, _measurements |-> <<>>, _par_info |-> <<>>,
     _trainable_params |-> <<>>, _batch_size |-> 0, _output_dim |-> 0]

\* ---------------------------------------------------------------------
\* CommutationDAG
\* ---------------------------------------------------------------------
\* CommutationDAG.__init__
Init ==
    /\ node_id = 0 - 1
    /\ nodes = <<>>
    /\ edges = {}
    /\ raised = NoException
    /\ phase = "Building"
    /\ answer = NoAnswer
    /\ operation1 = NoOperation
    /\ operation2 = NoOperation
    /\ result = NoResult
    /\ heap = <<>>
    /\ circuit = NoCircuit
    /\ call = NoCall
    /\ tape = NoTape

\* _add_node that leaves the node without its id
_add_node_unnumbered(ns, id, operation) == Append(ns, CommutationDAGNode(operation))

\* _add_node: the id counter is advanced and the node is stored
_add_node(ns, id, operation) ==
    Append(ns, [CommutationDAGNode(operation) EXCEPT !.node_id = id + 1])

\* add_node: _add_node followed by _update_edges
add_node(operation) ==
    LET out == _update_edges(_add_node(nodes, node_id, operation), edges)
    IN  /\ node_id' = node_id + 1
        /\ nodes' = out.nodes
        /\ edges' = out.edges
        /\ raised' = out.raised
        /\ phase' = IF phase = "Building" THEN "Building" ELSE "Misused"
        /\ answer' = NoAnswer
        /\ UNCHANGED oracle_vars
        /\ UNCHANGED circuit_vars
        /\ UNCHANGED tape_vars

\* _add_successors
_add_successors ==
    LET out == successor_pass(nodes, edges, Len(nodes) - 1)
    IN  /\ nodes' = out.nodes
        /\ raised' = out.raised
        /\ phase' = IF phase = "Building" THEN "Finalized" ELSE "Misused"
        /\ answer' = NoAnswer
        /\ UNCHANGED <<node_id, edges>>
        /\ UNCHANGED oracle_vars
        /\ UNCHANGED circuit_vars
        /\ UNCHANGED tape_vars

\* successors(node_id): a read of the graph, in any phase
successors_query(id) ==
    /\ answer' = [id |-> id, value |-> successors(edges, id)]
    /\ raised' = NoException
    /\ UNCHANGED <<node_id, nodes, edges, phase>>
    /\ UNCHANGED oracle_vars
    /\ UNCHANGED circuit_vars
    /\ UNCHANGED tape_vars

\* a client of the class: any call in any order
AddNode == \E operation \in DagOps : Len(nodes) < MaxNodes /\ add_node(operation)

AddSuccessors == _add_successors

Successors == \E id \in 0..(Len(nodes) - 1) : successors_query(id)

Next == AddNode \/ AddSuccessors

Spec == Init /\ [][Next]_vars

\* a DAG that is queried while it is built
QueryNext == AddNode \/ Successors

QuerySpec == Init /\ [][QueryNext]_vars

\* get_dag_commutation.wrapper: add_node for each operation of the tape,
\* then one successor pass; an exception ends the call
WrapperAddNode ==
    /\ phase = "Building"
    /\ raised = NoException
    /\ Len(nodes) < MaxTapeLen
    /\ \E operation \in TapeOps : add_node(operation)

WrapperAddSuccessors ==
    /\ phase = "Building"
    /\ raised = NoException
    /\ _add_successors

WrapperNext == WrapperAddNode \/ WrapperAddSuccessors

WrapperSpec == Init /\ [][WrapperNext]_vars

\* ---------------------------------------------------------------------
\* get_dag_commutation.wrapper on a caller's tape whose wire labels are
\* arbitrary.  The operations and observables of the tape are the caller's
\* objects: an assignment to operation._wires is seen by the caller and by
\* the next call, while tape.wires is computed once, when the tape is made.
\* ---------------------------------------------------------------------
Labels == 0..MaxLabel

\* operation.wires.tolist(): control wires first
wire_list(op) == SortedList(op.control_wires) \o SortedList(op.wires \ op.control_wires)

RECURSIVE all_wires(_, _)
\* Wires.all_wires: the labels in the order of their first appearance
all_wires(objs, seen) ==
    IF objs = <<>> THEN seen
    ELSE all_wires(Tail(objs),
             seen \o SelectSeq(wire_list(Head(objs)), LAMBDA w : w \notin ToSet(seen)))

\* a tape as its constructor leaves it
QuantumTape(ops, obs) ==
    [operations |-> ops, observables |-> obs, wires |-> all_wires(ops \o obs, <<>>)]

\* OrderedDict(zip(wires, Wires(range(len(wires)))))
wires_map(wires) ==
    [w \in ToSet(wires) |-> (CHOOSE k \in 1..Len(wires) : wires[k] = w) - 1]

\* obj._wires = Wires([wires_map[wire] for wire in obj.wires.tolist()]);
\* control_wires and target_wires are read from _wires
map_wires(obj, m) ==
    [obj EXCEPT !.wires = {m[w] : w \in @},
                !.control_wires = {m[w] : w \in @},
                !.target_wires = {m[w] : w \in @}]

KeyError == [kind |-> "KeyError", name |-> "wire"]

RECURSIVE map_observables(_, _, _)
\* the loop over tape.observables; a label that is no key of wires_map
\* raises KeyError and leaves the earlier observables reassigned
map_observables(obs, k, m) ==
    IF k > Len(obs) THEN [observables |-> obs, raised |-> NoException]
    ELSE IF ~(obs[k].wires \subseteq DOMAIN m)
    THEN [observables |-> obs, raised |-> KeyError]
    ELSE map_observables([obs EXCEPT ![k] = map_wires(obs[k], m)], k + 1, m)

RECURSIVE add_operations(_, _, _, _, _, _)

\* after add_node on the k-th operation: an exception ends the loop
next_operation(ops, k, m, out, id) ==
    IF out.raised # NoException
    THEN [operations |-> ops, nodes |-> out.nodes, edges |-> out.edges,
          node_id |-> id, raised |-> out.raised]
    ELSE add_operations(ops, k + 1, m, out.nodes, out.edges, id)

\* operation._wires = ...; dag.add_node(operation)
add_operation(ops, k, m, operation, ns, es, id) ==
    next_operation([ops EXCEPT ![k] = operation], k, m,
                   _update_edges(_add_node(ns, id, operation), es), id + 1)

\* the loop over tape.operations: reassign the wires, then add_node
add_operations(ops, k, m, ns, es, id) ==
    IF k > Len(ops)
    THEN [operations |-> ops, nodes |-> ns, edges |-> es, node_id |-> id,
          raised |-> NoException]
    ELSE IF ~(ops[k].wires \subseteq DOMAIN m)
    THEN [operations |-> ops, nodes |-> ns, edges |-> es, node_id |-> id,
          raised |-> KeyError]
    ELSE add_operation(ops, k, m, map_wires(ops[k], m), ns, es, id)

\* dag._add_successors() and return dag
finish_dag(t, o, a, s) ==
    [tape |-> [t EXCEPT !.observables = o.observables, !.operations = a.operations],
     node_id |-> a.node_id, nodes |-> s.nodes, edges |-> a.edges,
     raised |-> s.raised, phase |-> "Finalized"]

\* the DAG after the loop over tape.operations
build_dag(t, o, a) ==
    IF a.raised # NoException
    THEN [tape |-> [t EXCEPT !.observables = o.observables,
                             !.operations = a.operations],
          node_id |-> a.node_id, nodes |-> a.nodes, edges |-> a.edges,
          raised |-> a.raised, phase |-> "Building"]
    ELSE finish_dag(t, o, a, successor_pass(a.nodes, a.edges, Len(a.nodes) - 1))

\* CommutationDAG(consecutive_wires, tape.observables), unless the loop
\* over tape.observables raised
new_dag(t, m, o) ==
    IF o.raised # NoException
    THEN [tape |-> [t EXCEPT !.observables = o.observables],
          node_id |-> 0 - 1, nodes |-> <<>>, edges |-> {},
          raised |-> o.raised, phase |-> "Building"]
    ELSE build_dag(t, o, add_operations(t.operations, 1, m, <<>>, {}, 0 - 1))

\* the body of the wrapper on tape t
wrapper(t, m) == new_dag(t, m, map_observables(t.observables, 1, m))

\* one call of the wrapper on the tape; the DAG variables hold the DAG of
\* this call, which is returned when phase is "Finalized"
get_dag_commutation ==
    \E r \in {wrapper(tape, wires_map(tape.wires))} :
        /\ tape' = r.tape
        /\ node_id' = r.node_id
        /\ nodes' = r.nodes
        /\ edges' = r.edges
        /\ raised' = r.raised
        /\ phase' = r.phase
        /\ answer' = NoAnswer
        /\ UNCHANGED oracle_vars
        /\ UNCHANGED circuit_vars

PauliZ(w) == Op("PauliZ", {w}, <<>>)

RemapOps ==
    {PauliX(w) : w \in Labels} \cup {Hadamard(w) : w \in Labels}
    \cup {CNOT(c, t) : <<c, t>> \in {x \in Labels \X Labels : x[1] # x[2]}}

RemapObservables == {<<>>} \cup {<<PauliZ(w)>> : w \in Labels}

RemapTapes ==
    {QuantumTape(ops, obs) :
        <<ops, obs>> \in (UNION {[1..n -> RemapOps] : n \in 1..MaxRemapLen})
                         \X RemapObservables}

RemapInit ==
    /\ node_id = 0 - 1
    /\ nodes = <<>>
    /\ edges = {}
    /\ raised = NoException
    /\ phase = "Building"
    /\ answer = NoAnswer
    /\ operation1 = NoOperation
    /\ operation2 = NoOperation
    /\ result = NoResult
    /\ heap = <<>>
    /\ circuit = NoCircuit
    /\ call = NoCall
    /\ tape \in RemapTapes

GetDagCommutation == get_dag_commutation

RemapNext == GetDagCommutation

RemapSpec == RemapInit /\ [][RemapNext]_vars

\* ---------------------------------------------------------------------
\* is_commuting as a call
\* ---------------------------------------------------------------------
OracleInit ==
    /\ node_id = 0 - 1
    /\ nodes = <<>>
    /\ edges = {}
    /\ raised = NoException
    /\ phase = "Building"
    /\ answer = NoAnswer
    /\ operation1 \in OracleOps
    /\ operation2 \in OracleOps
    /\ result = NoResult
    /\ heap = <<>>
    /\ circuit = NoCircuit
    /\ call = NoCall
    /\ tape = NoTape

CallIsCommuting ==
    /\ result = NoResult
    /\ result' = is_commuting(operation1, operation2)
    /\ UNCHANGED <<operation1, operation2>>
    /\ UNCHANGED dag_vars
    /\ UNCHANGED circuit_vars
    /\ UNCHANGED tape_vars

OracleNext == CallIsCommuting

OracleSpec == OracleInit /\ [][OracleNext]_vars

\* ---------------------------------------------------------------------------
\* A Circuit under set_parameters, trainable_params assignments and inv().

\* the operators a circuit is constructed from
CircuitOperators ==
    {Object("RX", <<v>>, "") : v \in 1..MaxValue}
    \cup {Object("CNOT", <<>>, ""), Object("BasisState", <<1>>, ""),
          Object("CustomOp", <<1, 2>>, "")}

CircuitTapes ==
    UNION {[1..n -> CircuitOperators] : n \in 0..MaxOps}

NumData(objs) == Len(Flatten([k \in 1..Len(objs) |-> objs[k].data]))

\* the observables of its measurements, all expectation values
CircuitObservables == {<<>>, <<Object("Hermitian", <<3>>, "Expectation")>>}

\* the parameter lists of a given length handed to set_parameters
ParamLists(n) == {[k \in 1..n |-> 10 * b + k] : b \in 1..MaxValue}

\* the index collections assigned to trainable_params
IndexSets(n) == {S \in SUBSET ((0 - 1)..(n + 1)) : Cardinality(S) <= MaxIndices}

CircuitInit ==
    /\ node_id = 0 - 1
    /\ nodes = <<>>
    /\ edges = {}
    /\ raised = NoException
    /\ phase = "Building"
    /\ answer = NoAnswer
    /\ operation1 = NoOperation
    /\ operation2 = NoOperation
    /\ result = NoResult
    /\ call = NoCall
    /\ tape = NoTape
    /\ \E ops \in CircuitTapes : \E obs \in CircuitObservables :
          /\ NumData(ops \o obs) <= MaxParams
          /\ heap = ops \o obs
          /\ circuit = Circuit([k \in 1..Len(ops) |-> k],
                               [k \in 1..Len(obs) |-> Len(ops) + k], ops \o obs)

set_parameters(params, trainable_only) ==
    LET required_length == IF trainable_only THEN num_params(circuit)
                           ELSE Len(circuit._par_info)
        idxs == IF trainable_only THEN circuit._trainable_params
                ELSE [k \in 1..Len(params) |-> k - 1]
        r    == assign(circuit, heap, idxs, params)
        size == _update_batch_size(circuit, r.heap)
    IN  /\ call' = [name |-> "set_parameters", params |-> params,
                    trainable_only |-> trainable_only]
        /\ IF Len(params) # required_length
           THEN /\ raised' = [kind |-> "TapeError",
                              name |-> "Number of provided parameters does not match."]
                /\ UNCHANGED <<heap, circuit>>
           ELSE /\ heap' = r.heap
                /\ raised' = r.raised
                /\ circuit' = IF r.raised # NoException THEN circuit
                              ELSE [circuit EXCEPT
                                      !._batch_size = size,
                                      !._output_dim = _update_output_dim(circuit, size)]
        /\ UNCHANGED <<node_id, nodes, edges, phase, answer>>
        /\ UNCHANGED oracle_vars
        /\ UNCHANGED tape_vars

\* circuit.trainable_params = param_indices
trainable_params(param_indices) ==
    LET check == trainable_params_check(circuit, param_indices)
    IN  /\ call' = [name |-> "trainable_params", params |-> <<>>, trainable_only |-> FALSE]
        /\ raised' = check
        /\ circuit' = IF check # NoException THEN circuit
                      ELSE [circuit EXCEPT !._trainable_params = SortedList(param_indices)]
        /\ UNCHANGED <<node_id, nodes, edges, phase, answer, heap>>
        /\ UNCHANGED oracle_vars
        /\ UNCHANGED tape_vars

inv ==
    LET mapping      == parameter_mapping(circuit, heap)
        unmapped     == {i \in ToSet(circuit._trainable_params) : i \notin DOMAIN mapping}
        mapped       == {mapping[i] : i \in ToSet(circuit._trainable_params)}
        check        == trainable_params_check(circuit, mapped)
        unmapped_key == {k \in ToSet(par_keys(circuit)) : k \notin DOMAIN mapping}
        c1           == [circuit EXCEPT !._trainable_params = SortedList(mapped)]
        c2           == [c1 EXCEPT !._par_info =
                            [k \in 1..Len(c1._par_info) |->
                                [c1._par_info[k] EXCEPT !.key = mapping[c1._par_info[k].key]]]]
        prep_ops     == SelectSeq(circuit._ops, LAMBDA op : heap[op].name \in prep_ops_names)
        non_prep_ops == SelectSeq(circuit._ops,
                                  LAMBDA op : heap[op].name \notin prep_ops_names)
        r            == adjoint_all(heap, non_prep_ops)
    IN  /\ call' = [name |-> "inv", params |-> <<>>, trainable_only |-> FALSE]
        /\ IF unmapped # {}
           THEN /\ raised' = [kind |-> "KeyError",
                              name |-> ToString(CHOOSE i \in unmapped : TRUE)]
                /\ UNCHANGED <<heap, circuit>>
           ELSE IF check # NoException
           THEN /\ raised' = check
                /\ UNCHANGED <<heap, circuit>>
           ELSE IF unmapped_key # {}
           THEN /\ raised' = [kind |-> "KeyError",
                              name |-> ToString(CHOOSE k \in unmapped_key : TRUE)]
                /\ circuit' = c1
                /\ UNCHANGED heap
           ELSE /\ raised' = NoException
                /\ heap' = r.heap
                /\ circuit' = [c2 EXCEPT !._ops = prep_ops \o Reversed(r.new_ops)]
        /\ UNCHANGED <<node_id, nodes, edges, phase, answer>>
        /\ UNCHANGED oracle_vars
        /\ UNCHANGED tape_vars

SetParameters ==
    \E trainable_only \in BOOLEAN :
        LET n == IF trainable_only THEN num_params(circuit) ELSE Len(circuit._par_info)
        IN  \E m \in {n - 1, n, n + 1} \cap Nat :
                \E params \in ParamLists(m) : set_parameters(params, trainable_only)

SetTrainableParams ==
    \E param_indices \in IndexSets(Len(circuit._par_info)) : trainable_params(param_indices)

Inv == Len(heap) + Len(circuit._ops) <= MaxObjects /\ inv

CircuitNext == SetParameters \/ SetTrainableParams \/ Inv

CircuitSpec == CircuitInit /\ [][CircuitNext]_vars

\* =====================================================================
\* Properties
\* =====================================================================
Ids == 0..(Len(nodes) - 1)

OpOf(i) == get_node(nodes, i).op

Tape == [i \in 1..Len(nodes) |-> nodes[i].op]

HasEdge(i, j) == \E e \in edges : e.node_in = i /\ e.node_out = j

\* every call of is_commuting on an earlier and a later operation returns
AllPairsReturn ==
    \A i \in Ids : \A j \in Ids : i < j => is_commuting(OpOf(i), OpOf(j)).kind = "return"

\* the all-pairs construction: an edge for every non-commuting pair i < j
BruteForceEdges ==
    {[node_in |-> p[1], node_out |-> p[2], commute |-> FALSE] :
        p \in {q \in Ids \X Ids :
                 q[1] < q[2] /\ is_commuting(OpOf(q[1]), OpOf(q[2])) = Return(FALSE)}}

\* C1: when every add_node call returned, each node has the same transitive
\* predecessors in the incrementally built graph as in the all-pairs graph
\* of the non-commuting pairs.
C1_ReachabilityEquivalence ==
    AllPairsReturn =>
        \A n \in Ids : ancestors(edges, {n}) = ancestors(BruteForceEdges, {n})

\* a non-commuting pair that got no direct edge: it was pruned
C1_Witness ==
    /\ AllPairsReturn
    /\ \E i \in Ids : \E j \in Ids :
          /\ i < j
          /\ is_commuting(OpOf(i), OpOf(j)) = Return(FALSE)
          /\ ~HasEdge(i, j)

\* C2: every edge points from a lower id to a strictly higher id, and no
\* node is its own transitive predecessor.
C2_Acyclic ==
    /\ \A e \in edges : e.node_in < e.node_out
    /\ \A n \in Ids : n \notin ancestors(edges, {n})

C2_Witness == Cardinality(edges) >= 2 /\ Len(nodes) = MaxNodes

\* C3: when is_commuting returns for a pair in both orders, it returns the
\* same verdict in both orders.
C3_Symmetry ==
    (result.kind = "return" /\ is_commuting(operation2, operation1).kind = "return")
        => result.value = is_commuting(operation2, operation1).value

\* the parameters are all congruent to 0 modulo 2*pi
ZeroParameters(o) ==
    o.data # <<>> /\ \A i \in 1..Len(o.data) : o.data[i] % TwoPi = 0

SharesWire(a, b) == a.wires \cap b.wires # {}

C3_Witness ==
    /\ result = Return(FALSE)
    /\ operation1.name = "RX"
    /\ ZeroParameters(operation1)
    /\ operation2.name = "Barrier"

\* C4: is_commuting returns True for every pair of operations that share no
\* wire.
C4_DisjointWires ==
    (result.kind = "return" /\ ~SharesWire(operation1, operation2)) => result.value

IsCVOrChannel(o) == o.cls \in {"CVOperation", "Channel"}

Unsupported(o) == IsCVOrChannel(o) \/ o.name \in not_supported_operations

RotationKinds == {"RX", "RY", "RZ", "Rot", "U2", "U3", "CRX", "CRY", "CRZ", "CRot"}

\* R is a rotation of one of the kinds with identity parameters and B is a
\* supported operation other than a Barrier or WireCut that shares a wire
IdentityCase(R, B, kinds) ==
    /\ R.name \in kinds
    /\ ZeroParameters(R)
    /\ ~Unsupported(B)
    /\ B.name \notin {"Barrier", "WireCut"}
    /\ SharesWire(R, B)

\* C5 as stated: a rotation of any kind whose parameters are all congruent
\* to 0 modulo 2*pi commutes, in either operand position, with every
\* supported operation other than Barrier and WireCut sharing a wire.
C5_AnyRotation ==
    (result # NoResult /\ (\/ IdentityCase(operation1, operation2, RotationKinds)
                           \/ IdentityCase(operation2, operation1, RotationKinds)))
        => result = Return(TRUE)

\* C5: a rotation of any kind but U2 whose parameters are all congruent to
\* 0 modulo 2*pi commutes, in either operand position, with every supported
\* operation other than Barrier and WireCut sharing a wire.
C5_IdentityShortCircuit ==
    (result # NoResult
        /\ (\/ IdentityCase(operation1, operation2, RotationKinds \ {"U2"})
            \/ IdentityCase(operation2, operation1, RotationKinds \ {"U2"})))
        => result = Return(TRUE)

C5_Witness ==
    /\ result = Return(TRUE)
    /\ operation1.name = "PauliX"
    /\ operation2.name = "RZ"
    /\ operation2.data # <<0>>
    /\ IdentityCase(operation2, operation1, RotationKinds \ {"U2"})

\* C6: for two uncontrolled operations of table kinds that share a wire,
\* neither with identity parameters, is_commuting returns the table entry
\* commutation_map[op1.name][position[op2.name]].
C6_TableLookup ==
    (/\ result # NoResult
     /\ ~Unsupported(operation1) /\ ~Unsupported(operation2)
     /\ operation1.is_controlled = "" /\ operation2.is_controlled = ""
     /\ operation1.name \in DOMAIN commutation_map \ simplifiable_names
     /\ operation2.name \in DOMAIN commutation_map \ simplifiable_names
     /\ ~ZeroParameters(operation1) /\ ~ZeroParameters(operation2)
     /\ SharesWire(operation1, operation2))
        => result = Return(commutation_map[operation1.name][position[operation2.name] + 1] = 1)

\* C7: two controlled rotations about the same axis on the same control and
\* target wires, with parameters theta and -theta, theta not a multiple of
\* 2*pi, commute.
C7_OppositeControlledRotations ==
    (/\ result # NoResult
     /\ operation1.name = "CRZ" /\ operation2.name = "CRZ"
     /\ operation1.control_wires = operation2.control_wires
     /\ operation1.target_wires = operation2.target_wires
     /\ operation1.data[1] % TwoPi # 0
     /\ operation2.data[1] = 0 - operation1.data[1])
        => result = Return(TRUE)

Scenario2 ==
    <<PauliX(0), CNOT(1, 2), PauliY(1), Hadamard(2), CRZ(HalfPi, 2, 0), PauliY(1)>>

\* C8 as stated: in scenario 2 the transitive predecessors of the CRZ node
\* contain the CNOT node and the Hadamard node and not the first X(0) node.
C8_WithoutFirstX ==
    Tape = Scenario2 =>
        /\ 1 \in ToSet(predecessors(edges, 4))
        /\ 3 \in ToSet(predecessors(edges, 4))
        /\ 0 \notin ToSet(predecessors(edges, 4))

\* C8: in scenario 2 the transitive predecessors of the CRZ node contain
\* the CNOT node, the Hadamard node and also the first X(0) node, which
\* acts on the target wire of the CRZ.
C8_Scenario2 ==
    Tape = Scenario2 =>
        /\ 1 \in ToSet(predecessors(edges, 4))
        /\ 3 \in ToSet(predecessors(edges, 4))
        /\ 0 \in ToSet(predecessors(edges, 4))

C8_Witness == Tape = Scenario2 /\ raised = NoException

\* C9: in a finalized DAG j is a transitive successor of i exactly when i is
\* a transitive predecessor of j, both for the graph queries and for the
\* lists cached on the nodes.
C9_Duality ==
    phase = "Finalized" =>
        \A i \in Ids : \A j \in Ids :
            /\ (j \in ToSet(successors(edges, i))) <=> (i \in ToSet(predecessors(edges, j)))
            /\ (j \in ToSet(get_node(nodes, i).successors))
                   <=> (i \in ToSet(get_node(nodes, j).predecessors))

\* a finalized DAG with a successor that is not a direct successor
C9_Witness ==
    /\ phase = "Finalized"
    /\ \E i \in Ids : \E j \in Ids :
          j \in ToSet(get_node(nodes, i).successors) /\ ~HasEdge(i, j)

\* C10 as stated: when an operand is a continuous-variable operation or a
\* channel, is_commuting raises an error that names such an operand.
C10_NamesTheCVOrChannel ==
    (result # NoResult /\ (IsCVOrChannel(operation1) \/ IsCVOrChannel(operation2)))
        => /\ result.kind = "QuantumFunctionError"
           /\ result.name \in {o.name : o \in {x \in {operation1, operation2} :
                                                  IsCVOrChannel(x)}}

\* C10: when an operand is a continuous-variable operation or a channel,
\* is_commuting returns no boolean: it raises an error that names the first
\* unsupported operand, whatever the wires and the other operand are.
C10_UnsupportedRaises ==
    (result # NoResult /\ (IsCVOrChannel(operation1) \/ IsCVOrChannel(operation2)))
        => /\ result.kind = "QuantumFunctionError"
           /\ result.name = IF Unsupported(operation1) THEN operation1.name
                            ELSE operation2.name

\* the error wins over the identity rule and the disjoint-wires rule
C10_Witness ==
    /\ result = Raise("QuantumFunctionError", "BitFlip")
    /\ operation1.name = "RX"
    /\ ZeroParameters(operation1)
    /\ operation2.name = "BitFlip"
    /\ ~SharesWire(operation1, operation2)

\* the kinds the specification lists as excluded by name
ExcludedNames ==
    {"PauliRot", "QubitDensityMatrix", "CVNeuralNetLayers", "ApproxTimeEvolution",
     "ArbitraryUnitary", "CommutingEvolution", "DisplacementEmbedding",
     "SqueezingEmbedding"}

\* C11: when either operand is one of the eight kinds excluded by name,
\* is_commuting rejects the pair with the unsupported-operation error.
C11_ExcludedNamesRejected ==
    (result # NoResult
        /\ (operation1.name \in ExcludedNames \/ operation2.name \in ExcludedNames))
        => result.kind = "QuantumFunctionError"

\* C12: a DAG that get_dag_commutation completed and returned was built from
\* a tape without any unsupported operation, the one-operation tape included.
C12_UnsupportedNeverCompletes ==
    phase = "Finalized" => \A i \in Ids : ~Unsupported(OpOf(i))

C15_BarrierFence ==
    AllPairsReturn =>
        \A a \in Ids : \A b \in Ids : \A c \in Ids :
            (a < b /\ b < c /\ OpOf(b).name = "Barrier"
                /\ SharesWire(OpOf(a), OpOf(b)) /\ SharesWire(OpOf(b), OpOf(c)))
            => /\ a \in ancestors(edges, {b})
               /\ b \in ancestors(edges, {c})

\* an operation, a Barrier and a zero-parameter rotation on one wire
C15_Witness ==
    /\ AllPairsReturn
    /\ \E b \in Ids :
          /\ b > 0
          /\ b + 1 \in Ids
          /\ OpOf(b).name = "Barrier"
          /\ SharesWire(OpOf(b - 1), OpOf(b))
          /\ OpOf(b + 1).name = "RX"
          /\ ZeroParameters(OpOf(b + 1))
          /\ SharesWire(OpOf(b), OpOf(b + 1))

\* C16: when the inserted operations are supported and act on pairwise
\* disjoint wires, the graph has no edge and every transitive predecessor
\* set and successor set is empty.
C16_DisjointNoEdges ==
    (/\ \A i \in Ids : ~Unsupported(OpOf(i))
     /\ \A i \in Ids : \A j \in Ids : i < j => ~SharesWire(OpOf(i), OpOf(j)))
        => /\ edges = {}
           /\ \A i \in Ids :
                 /\ predecessors(edges, i) = <<>>
                 /\ successors(edges, i) = <<>>
                 /\ get_node(nodes, i).predecessors = <<>>

\* C17: for the kinds of the two operands that are in position, the table
\* gives the same entry in both orders, and each of their rows has one entry
\* per kind.
C17_TableSymmetric ==
    LET kinds == {operation1.name, operation2.name} \cap DOMAIN position
    IN  \A a \in kinds : \A b \in kinds :
            /\ Lookup(a, b) = Lookup(b, a)
            /\ Len(commutation_map[a]) = Cardinality(DOMAIN position)

\* C18: every stored edge carries commute = FALSE and joins an earlier node
\* to a later node whose operations is_commuting reports as not commuting.
C18_EdgesAreNonCommuting ==
    \A e \in edges :
        /\ e.commute = FALSE
        /\ e.node_in < e.node_out
        /\ is_commuting(OpOf(e.node_in), OpOf(e.node_out)) = Return(FALSE)

\* two edges, and a pair without an edge
C18_Witness ==
    /\ Cardinality(edges) >= 2
    /\ \E i \in Ids : \E j \in Ids : i < j /\ ~HasEdge(i, j)

\* the parameters of the operations now in the circuit, in their order,
\* followed by those of the observables
ParamsInOrder ==
    LET objs == circuit._ops \o observables(circuit)
    IN  Flatten([k \in 1..Len(objs) |-> heap[objs[k]].data])

\* C19: get_parameters(trainable_only=False) returns the parameters of the
\* operations now in the circuit, in their order, followed by those of the
\* observables, and each _par_info entry holds the operation and the slot at
\* the matching position.
C19_ParametersInOrder ==
    /\ get_parameters(circuit, heap, FALSE, FALSE) = Return(ParamsInOrder)
    /\ circuit._par_info = _update_par_info(circuit, heap)

\* C20: a set_parameters(p, trainable_only=True) that returns makes
\* get_parameters() return p and leaves every parameter outside
\* trainable_params at its value; a set_parameters(p, trainable_only=False)
\* that returns makes get_parameters(trainable_only=False) return p.
C20_RoundTrip ==
    [][(call'.name = "set_parameters" /\ raised' = NoException) =>
          LET before == get_parameters(circuit, heap, FALSE, FALSE).value
              after  == get_parameters(circuit', heap', FALSE, FALSE).value
              keys   == par_keys(circuit)
          IN  IF call'.trainable_only
              THEN /\ get_parameters(circuit', heap', TRUE, FALSE) = Return(call'.params)
                   /\ \A k \in 1..Len(keys) :
                         keys[k] \notin ToSet(circuit._trainable_params)
                             => after[k] = before[k]
              ELSE get_parameters(circuit', heap', FALSE, FALSE) = Return(call'.params)]_vars

\* a returned set_parameters on some but not all parameters of a circuit
\* that holds an operator with two parameters
C20_Witness ==
    /\ call.name = "set_parameters"
    /\ call.trainable_only
    /\ raised = NoException
    /\ call.params # <<>>
    /\ Len(circuit._trainable_params) < Len(circuit._par_info)
    /\ \E k \in 1..Len(circuit._ops) : Len(heap[circuit._ops[k]].data) = 2

\* the is_commuting characterisation of the direct edges
EdgesByVerdict ==
    \A p \in Ids : \A n \in Ids :
        p < n =>
            (HasEdge(p, n) <=>
                (/\ is_commuting(OpOf(p), OpOf(n)) = Return(FALSE)
                 /\ ~\E q \in Ids : p < q /\ q < n /\ HasEdge(q, n)
                                     /\ p \in ancestors(edges, {q})))

\* no edge p -> n is doubled by a path from p to n through another node
NoRedundantEdge ==
    \A e \in edges :
        ~\E q \in Ids \ {e.node_in, e.node_out} :
            e.node_in \in ancestors(edges, {q}) /\ HasEdge(q, e.node_out)

\* C21 as stated: in every reachable state no direct edge is redundant, and
\* an edge p -> n exists exactly when is_commuting reports the pair as not
\* commuting and p is no transitive predecessor of a node between them that
\* has an edge to n.
C21_ReductionInEveryState == NoRedundantEdge /\ EdgesByVerdict

\* C21: in every reachable state no direct edge is redundant; when every
\* insertion returned, an edge p -> n exists exactly when is_commuting
\* reports the pair as not commuting and p is no transitive predecessor of a
\* node between them that has an edge to n.
C21_TransitiveReduction == NoRedundantEdge /\ (AllPairsReturn => EdgesByVerdict)

\* a non-commuting pair without a direct edge, joined through a third node
C21_Witness ==
    /\ AllPairsReturn
    /\ \E p \in Ids : \E q \in Ids : \E n \in Ids :
          /\ p < q /\ q < n
          /\ is_commuting(OpOf(p), OpOf(n)) = Return(FALSE)
          /\ HasEdge(p, q) /\ HasEdge(q, n) /\ ~HasEdge(p, n)

\* C22: in every state the predecessors list cached on a node is strictly
\* increasing and holds exactly the transitive predecessors of the node
\* over the edge graph.
C22_CachedPredecessorsExact ==
    \A n \in Ids :
        LET l == get_node(nodes, n).predecessors
        IN  /\ \A k \in 1..(Len(l) - 1) : l[k] < l[k + 1]
            /\ l = predecessors(edges, n)
            /\ ToSet(l) = ancestors(edges, {n})

\* a cached predecessor that is not a direct predecessor
C22_Witness ==
    \E n \in Ids : \E p \in ToSet(get_node(nodes, n).predecessors) : ~HasEdge(p, n)

\* C23: before the successor pass every cached successors list is empty;
\* after one pass each cached successors list is strictly increasing and
\* holds exactly the transitive successors of its node.
C23_FinalizationExact ==
    /\ phase = "Building" => \A n \in Ids : get_node(nodes, n).successors = <<>>
    /\ phase = "Finalized" =>
          \A n \in Ids :
              LET l == get_node(nodes, n).successors
              IN  /\ \A k \in 1..(Len(l) - 1) : l[k] < l[k + 1]
                  /\ l = successors(edges, n)
                  /\ ToSet(l) = {j \in Ids : n \in ancestors(edges, {j})}

\* a finalized DAG with a node that two of its successors' lists both name
C23_Witness ==
    /\ phase = "Finalized"
    /\ \E n \in Ids : \E a \in Ids : \E b \in Ids :
          /\ a # b
          /\ HasEdge(n, a) /\ HasEdge(n, b)
          /\ ToSet(get_node(nodes, a).successors)
                 \cap ToSet(get_node(nodes, b).successors) # {}

\* C28 as stated: an add_node that raises the unsupported-operation error
\* leaves the node count, the id counter, the edge set and every cached
\* predecessors list as they were.
C28_FailedAddNodeUnchanged ==
    [][raised'.kind = "QuantumFunctionError" =>
          /\ Len(nodes') = Len(nodes)
          /\ node_id' = node_id
          /\ edges' = edges
          /\ \A i \in 1..Len(nodes) :
                nodes'[i].predecessors = nodes[i].predecessors]_vars

\* C28: an add_node that raises the unsupported-operation error is not
\* undone: the new node stays with the next id, the edges inserted into it
\* before the raise stay and its cached predecessors list matches them,
\* while the edges between earlier nodes and the cached predecessors lists
\* of earlier nodes are as before.
C28_FailedAddNodeKeepsNode ==
    [][raised'.kind = "QuantumFunctionError" =>
          /\ Len(nodes') = Len(nodes) + 1
          /\ node_id' = node_id + 1
          /\ nodes'[Len(nodes')].node_id = node_id'
          /\ edges \subseteq edges'
          /\ \A e \in edges' \ edges : e.node_out = Len(nodes)
          /\ ToSet(nodes'[Len(nodes')].predecessors) = ancestors(edges', {Len(nodes)})
          /\ \A i \in 1..Len(nodes) :
                nodes'[i].predecessors = nodes[i].predecessors]_vars

\* a raised insertion that had already stored an edge
C28_Witness ==
    /\ raised.kind = "QuantumFunctionError"
    /\ \E e \in edges : e.node_out = Len(nodes) - 1

\* C29: the ids are 0..n-1 in insertion order, and an add_node appends one
\* node, adds only edges into it, and leaves the earlier nodes' operations,
\* ids and cached predecessors lists and the earlier edges as they were.
C29_InsertionTouchesNewNode ==
    [][/\ \A i \in 1..Len(nodes') : nodes'[i].node_id = i - 1
       /\ Len(nodes') >= Len(nodes)
       /\ Len(nodes') # Len(nodes) =>
             /\ Len(nodes') = Len(nodes) + 1
             /\ node_id' = Len(nodes)
             /\ edges \subseteq edges'
             /\ \A e \in edges' \ edges : e.node_out = Len(nodes)
             /\ \A i \in 1..Len(nodes) :
                   /\ nodes'[i].op = nodes[i].op
                   /\ nodes'[i].predecessors = nodes[i].predecessors]_vars

\* a fourth insertion that stored an edge, next to earlier edges
C29_Witness ==
    /\ Len(nodes) = MaxNodes
    /\ \E e \in edges : e.node_out = Len(nodes) - 1
    /\ \E e \in edges : e.node_out < Len(nodes) - 1

\* C30: when an add_node returns, every earlier node carries a flag, and the
\* flag is False exactly on the transitive predecessors of the new node.
C30_ReachableFlags ==
    [][(Len(nodes') = Len(nodes) + 1 /\ raised' = NoException) =>
          \A p \in 0..(Len(nodes) - 1) :
              /\ get_node(nodes', p).reachable \in {"True", "False"}
              /\ (get_node(nodes', p).reachable = "False")
                     <=> (p \in ancestors(edges', {Len(nodes)}))]_vars

\* after a returned insertion: a flag cleared on a node without a direct
\* edge to the new node, and a flag still set
C30_Witness ==
    /\ phase = "Building"
    /\ raised = NoException
    /\ \E p \in Ids : \E q \in Ids :
          /\ get_node(nodes, p).reachable = "False"
          /\ ~HasEdge(p, Len(nodes) - 1)
          /\ get_node(nodes, q).reachable = "True"

\* C24: when exactly one operand is controlled, both are of table kinds
\* without identity parameters, and the uncontrolled operand A overlaps the
\* control wires and the target wires of the controlled operand B,
\* is_commuting returns table[A][ctrl] and table[A][target kind of B],
\* whichever operand comes first.
C24_ControlledConjunction ==
    LET one_controlled == (operation1.is_controlled = "") # (operation2.is_controlled = "")
        A == IF operation1.is_controlled = "" THEN operation1 ELSE operation2
        B == IF operation1.is_controlled = "" THEN operation2 ELSE operation1
    IN  (/\ result # NoResult
         /\ one_controlled
         /\ ~Unsupported(A) /\ ~Unsupported(B)
         /\ A.name \in DOMAIN commutation_map \ simplifiable_names
         /\ B.name \notin simplifiable_names
         /\ B.is_controlled \in DOMAIN position
         /\ ~ZeroParameters(A) /\ ~ZeroParameters(B)
         /\ A.wires \cap B.control_wires # {}
         /\ A.wires \cap B.target_wires # {})
            => result = Return(/\ commutation_map[A.name][position["ctrl"] + 1] = 1
                               /\ commutation_map[A.name][position[B.is_controlled] + 1] = 1)

\* C26: the stored trainable_params list is strictly increasing and each of
\* its indices is a non-negative key of _par_info, below the number of
\* parameters.
C26_TrainableParamsValid ==
    LET l == circuit._trainable_params
    IN  /\ \A k \in 1..(Len(l) - 1) : l[k] < l[k + 1]
        /\ \A k \in 1..Len(l) :
              /\ l[k] >= 0
              /\ l[k] < Len(circuit._par_info)
              /\ l[k] \in ToSet(par_keys(circuit))

\* C27: a set_parameters whose list has not the required length raises
\* TapeError and leaves every operator parameter and the batch size and
\* output dimension of the circuit as they were.
C27_WrongLengthNoEffect ==
    [][(/\ call'.name = "set_parameters"
        /\ Len(call'.params) # (IF call'.trainable_only
                                THEN Len(circuit._trainable_params)
                                ELSE Len(circuit._par_info)))
          => /\ raised'.kind = "TapeError"
             /\ heap' = heap
             /\ circuit' = circuit]_vars

\* a rejected list that is one longer than the trainable parameters, on a
\* circuit with further parameters
C27_Witness ==
    /\ call.name = "set_parameters"
    /\ call.trainable_only
    /\ raised.kind = "TapeError"
    /\ call.params # <<>>
    /\ Len(call.params) = Len(circuit._trainable_params) + 1
    /\ Len(circuit._trainable_params) < Len(circuit._par_info)

\* the caller's operations share wires exactly as the operations of the
\* nodes of the returned DAG do
SharingPreserved(ops, ns) ==
    \A i, j \in 1..Len(ns) :
        (ops[i].wires \cap ops[j].wires # {})
            <=> (ns[i].op.wires \cap ns[j].op.wires # {})

\* C25: a call of get_dag_commutation is a pure relabeling of the wires:
\* the i-th wire of tape.wires is mapped to the integer i, one to one onto
\* 0..num_wires-1; two operations share a wire in the returned DAG exactly
\* when they shared one before the call; the wire labels of the caller's
\* operations and observables are the same after the call as before it;
\* and a second call on the same tape returns the nodes and edges of the
\* first.
C25_PureRelabeling ==
    [][LET m == wires_map(tape.wires)
       IN  /\ \A k \in 1..Len(tape.wires) : m[tape.wires[k]] = k - 1
           /\ {m[w] : w \in DOMAIN m} = 0..(Len(tape.wires) - 1)
           /\ phase' = "Finalized" => SharingPreserved(tape.operations, nodes')
           /\ tape' = tape
           /\ phase = "Finalized" =>
                  /\ phase' = "Finalized"
                  /\ nodes' = nodes
                  /\ edges' = edges]_vars

=============================================================================
